---- MODULE Spec2Model ----
(***************************************************************************)
(* Voice interaction pipeline of the Digital Literacy Helper extension:    *)
(* SpeechService (recording, silence detection, transcription) driven by   *)
(* PopupController, and the older WidgetController driven by the Web       *)
(* Speech API.  One behaviour follows one controller (ctl), chosen when    *)
(* the page is set up; "page" is the popup controller injected into a web  *)
(* page, where chrome.runtime does not exist; "background" is the message  *)
(* listener of the background script; "visualizer" is a WaveformVisualizer *)
(* driven through its methods, next to a SpeechService that owns a stream; *)
(* "log" is a PopupController with a conversation history of any content   *)
(* whose processUserMessage is called; "annotator" is DOMAnnotator run on   *)
(* a page that changes between the runs; "tts" is the TTSService driven    *)
(* through speak() and stop(); "inject" is the content script run in a     *)
(* page, the scripts it loads and initPopupController of popup.js.         *)
(***************************************************************************)
EXTENDS Integers, Sequences, FiniteSets, TLC

\* ---------------------------------------------------------------- bounds
MaxRec == 2          \* clicks that start an attempt, per behaviour
MaxApiRec == 1       \* the same, when the methods are also called directly
MaxTimers == 2       \* setTimeout handles available to the silence timer
FrameLen == 2        \* samples per analysed frame (stands for analyser.fftSize)
TickMs == 1000       \* granularity of the clock, in milliseconds
MaxReq == 2          \* messages the background listener receives
MaxMic == 2          \* getUserMedia calls of one WaveformVisualizer
MaxHist == 3         \* entries of a conversation history given beforehand
MaxElems == 2        \* elements of the annotated page, in document order
MaxSpeak == 2        \* speak() calls made to the TTSService
MaxRuns == 2         \* executions of the content script in one page

\* ------------------------------------------------------- program constants
silenceDuration == 2000
SilenceThresholdNum == 1      \* silenceThreshold = 0.01 = 1/100
SilenceThresholdDen == 100
MinBlobSize == 1000
SampleMid == 128              \* (dataArray[i] - 128) / 128

IDLE == "idle"
LISTENING == "listening"
THINKING == "thinking"
RESPONDING == "responding"
STATES == {IDLE, LISTENING, THINKING, RESPONDING}

\* byte samples an analyser frame may hold; the frames sampled are those
\* with one value throughout: a faint hum (129) and a louder one (130)
Samples == {129, 130}
Frames == {[i \in 1..FrameLen |-> s] : s \in Samples}
\* sizes of the blob a MediaRecorder delivers with its dataavailable event
BlobSizes == {0, 600, 1200}
RecIds == 1..(IF MaxRec > MaxApiRec THEN MaxRec ELSE MaxApiRec)
TimerIds == 1..MaxTimers

VARIABLES
  ctl,                  \* the component the behaviour follows
  currentState,         \* PopupController.currentState
  conversationHistory,  \* PopupController.conversationHistory
  isProcessing,         \* PopupController._isProcessing
  procTask,             \* texts the in-flight processUserMessage calls answer
  idleTimers,           \* pending setTimeout(() => setState(IDLE), 2000)
  isVisualizing,        \* WaveformVisualizer.isVisualizing
  acquiring,            \* startRecording calls awaiting getUserMedia
  stream,               \* SpeechService.stream is set
  isRecording,          \* SpeechService.isRecording
  audioChunks,          \* SpeechService.audioChunks (sizes)
  silenceTimer,         \* SpeechService.silenceTimer (0 = null)
  pend,                 \* pending timeouts: handle -> ms left, -1 = none
  mediaRecorder,        \* SpeechService.mediaRecorder (0 = null)
  recorders,            \* MediaRecorder.state of every recorder created
  stopQueue,            \* recorders whose dataavailable+stop task is queued
  loops,                \* checkVolume loops with a frame callback scheduled
  analyser,             \* SpeechService.analyser (0 = null)
  tasks,                \* processAudio calls in flight, per recorder
  nAttempts,            \* startRecording calls that went past the guard
  rec,                  \* WidgetController: state of the speech recognition
  procStarts,           \* processUserMessage calls begun by the last step
  procCount,            \* processAudio runs per recorder
  stopHandled,          \* recorders whose onstop handler has run
  sinceLoud,            \* ms since a frame at or above the threshold
  staleSampled,         \* the last step sampled for a recording that was stopped
  emitLog,              \* states passed to updateState, per recorder
  events,               \* callbacks and sends made by updateState in the last step
  alerts,               \* alert() calls made by the last step
  bg,                   \* background listener: the messages it has received
  viz,                  \* the fields of a WaveformVisualizer and its resources
  chatContainer,        \* widget: the page has the chat container element
  dom,                  \* the page DOMAnnotator works on, and its last results
  tts,                  \* the fields of the TTSService and the audios it made
  inj,                  \* the page the content script injects the widget into
  stateLog,             \* states visited by the last step, first = before
  lastOp                \* the last step taken

vars == << ctl, currentState, conversationHistory, isProcessing, procTask,
           idleTimers, isVisualizing, acquiring, stream, isRecording,
           audioChunks, silenceTimer, pend, mediaRecorder, recorders,
           stopQueue, loops, analyser, tasks, nAttempts, rec, procStarts, procCount,
           stopHandled, sinceLoud, staleSampled, emitLog, events, alerts,
           bg, viz, chatContainer, dom, tts, inj, stateLog, lastOp >>

\* the variables of the controllers, left alone by the other components
controllerVars ==
  << currentState, conversationHistory, isProcessing, procTask,
     idleTimers, isVisualizing, acquiring, stream, isRecording,
     audioChunks, silenceTimer, pend, mediaRecorder, recorders,
     stopQueue, loops, analyser, tasks, nAttempts, rec, procStarts, procCount,
     stopHandled, sinceLoud, staleSampled, emitLog, events, alerts,
     chatContainer, stateLog, lastOp >>

\* what chrome.runtime.sendMessage does in the context the code runs in:
\* the message is delivered, the returned promise rejects (no listener), or
\* chrome.runtime does not exist
Channels ==
  CASE ctl = "page" -> {"noApi"}
    [] ctl = "api" -> {"delivered", "rejected"}
    [] OTHER -> {"delivered"}

\* the whole state as one record, threaded through the sequential code;
\* chan is the behaviour of the message channel during the step
World ==
  [ currentState |-> currentState, conversationHistory |-> conversationHistory,
    isProcessing |-> isProcessing, procTask |-> procTask,
    idleTimers |-> idleTimers, isVisualizing |-> isVisualizing,
    acquiring |-> acquiring, stream |-> stream, isRecording |-> isRecording,
    audioChunks |-> audioChunks, silenceTimer |-> silenceTimer, pend |-> pend,
    mediaRecorder |-> mediaRecorder, recorders |-> recorders,
    stopQueue |-> stopQueue, loops |-> loops, analyser |-> analyser,
    tasks |-> tasks, nAttempts |-> nAttempts, rec |-> rec, procStarts |-> 0,
    procCount |-> procCount, stopHandled |-> stopHandled,
    sinceLoud |-> sinceLoud, staleSampled |-> FALSE,
    emitLog |-> emitLog, events |-> << >>, alerts |-> 0, chan |-> "delivered",
    stateLog |-> << currentState >> ]

Worlds == {[World EXCEPT !.chan = c] : c \in Channels}

Commit(w, op) ==
  /\ currentState' = w.currentState
  /\ conversationHistory' = w.conversationHistory
  /\ isProcessing' = w.isProcessing
  /\ procTask' = w.procTask
  /\ idleTimers' = w.idleTimers
  /\ isVisualizing' = w.isVisualizing
  /\ acquiring' = w.acquiring
  /\ stream' = w.stream
  /\ isRecording' = w.isRecording
  /\ audioChunks' = w.audioChunks
  /\ silenceTimer' = w.silenceTimer
  /\ pend' = w.pend
  /\ mediaRecorder' = w.mediaRecorder
  /\ recorders' = w.recorders
  /\ stopQueue' = w.stopQueue
  /\ loops' = w.loops
  /\ analyser' = w.analyser
  /\ tasks' = w.tasks
  /\ nAttempts' = w.nAttempts
  /\ rec' = w.rec
  /\ procStarts' = w.procStarts
  /\ procCount' = w.procCount
  /\ stopHandled' = w.stopHandled
  /\ sinceLoud' = w.sinceLoud
  /\ staleSampled' = w.staleSampled
  /\ emitLog' = w.emitLog
  /\ events' = w.events
  /\ alerts' = w.alerts
  /\ stateLog' = w.stateLog
  /\ lastOp' = op
  /\ ctl' = ctl
  /\ bg' = bg
  /\ viz' = viz
  /\ chatContainer' = chatContainer
  /\ dom' = dom
  /\ tts' = tts
  /\ inj' = inj

NoTask == [phase |-> "none", text |-> ""]

\* ------------------------------------------------------ PopupController
\* setState: a request for the active state returns at once; otherwise the
\* state changes, updateUI and handleStateChange run (recorded in stateLog)
SetStateNoGuard(w, newState) ==
  [w EXCEPT !.currentState = newState,
            !.stateLog = Append(w.stateLog, newState)]

SetState(w, newState) ==
  IF w.currentState = newState THEN w
  ELSE [w EXCEPT !.currentState = newState,
                 !.stateLog = Append(w.stateLog, newState)]

\* WaveformVisualizer.stop
WaveformStop(w) == [w EXCEPT !.isVisualizing = FALSE]

\* an entry of the log of the step: an updateState callback or send (state,
\* message or fate of the send) or a chat message (sender, text)
Event(kind, state, message) ==
  [kind |-> kind, state |-> state, message |-> message]

\* navigator.mediaDevices.getUserMedia({ audio: true }) of the SpeechService
GetUserMedia == Event("getUserMedia", "speech", "")

\* alert(...)
Alert(w) == [w EXCEPT !.alerts = w.alerts + 1]

\* the onStateChange handler registered in PopupController.init
OnStateChange(w, state) ==
  CASE state = "recording" -> SetState(w, LISTENING)
    [] state = "processing" -> SetState(WaveformStop(w), THINKING)
    [] state = "error" -> WaveformStop(SetState(Alert(w), IDLE))
    [] OTHER -> w

\* the version of updateState without the test for chrome.runtime: in a page
\* the property access throws after the callback has run
UpdateStateUnguarded(w, state, message) ==
  LET w1 == OnStateChange(
              [w EXCEPT !.events = Append(w.events,
                                          Event("callback", state, message))],
              state)
  IN IF w.chan = "noApi"
       THEN [w1 EXCEPT !.events = Append(w1.events, Event("throw", state, ""))]
       ELSE [w1 EXCEPT !.events = Append(w1.events,
                                         Event("send", state, w.chan))]

\* SpeechService.updateState: the local callback, then the broadcast, whose
\* rejection is swallowed; a send event records what became of the message
UpdateState(w, state, message) ==
  LET w1 == OnStateChange(
              [w EXCEPT !.events = Append(w.events,
                                          Event("callback", state, message))],
              state)
  IN IF w.chan = "noApi" THEN w1
     ELSE [w1 EXCEPT !.events = Append(w1.events,
                                       Event("send", state, w.chan))]

\* updateState called on behalf of recorder r
Emit(w, r, state, message) ==
  [UpdateState(w, state, message) EXCEPT
     !.emitLog[r] = Append(w.emitLog[r], state)]

AddChatMessage(w, text, sender) ==
  [w EXCEPT !.conversationHistory =
              Append(w.conversationHistory, [text |-> text, sender |-> sender]),
            !.events = Append(w.events, Event("chat", sender, text))]

\* index of the last sender=user entry, 0 when there is none
LastUserIndex(h) ==
  LET us == {i \in 1..Len(h) : h[i].sender = "user"}
  IN IF us = {} THEN 0 ELSE CHOOSE i \in us : \A j \in us : j <= i

HasResponse(h, idx) == \E j \in (idx + 1)..Len(h) : h[j].sender = "bot"

\* processUserMessage up to its first await
ProcessUserMessageNoGuard(w) ==
  LET h == w.conversationHistory
      idx == LastUserIndex(h)
  IN IF idx = 0 \/ HasResponse(h, idx)
       THEN [SetState(w, IDLE) EXCEPT !.isProcessing = FALSE]
       ELSE [w EXCEPT !.isProcessing = TRUE,
                      !.procStarts = w.procStarts + 1,
                      !.procTask = Append(w.procTask, h[idx].text)]

ProcessUserMessageNoCheck(w) ==
  IF w.isProcessing THEN w
  ELSE LET h == w.conversationHistory
           idx == LastUserIndex(h)
       IN IF idx = 0
            THEN [SetState(w, IDLE) EXCEPT !.isProcessing = FALSE]
          ELSE [w EXCEPT !.isProcessing = TRUE,
                         !.procStarts = w.procStarts + 1,
                         !.procTask = Append(w.procTask, h[idx].text)]

ProcessUserMessageGuardInTry(w) ==
  IF w.isProcessing THEN [w EXCEPT !.isProcessing = FALSE]
  ELSE LET h == w.conversationHistory
           idx == LastUserIndex(h)
       IN IF idx = 0
            THEN [SetState(w, IDLE) EXCEPT !.isProcessing = FALSE]
          ELSE IF HasResponse(h, idx)
            THEN [SetState(w, IDLE) EXCEPT !.isProcessing = FALSE]
          ELSE [w EXCEPT !.isProcessing = TRUE,
                         !.procStarts = w.procStarts + 1,
                         !.procTask = Append(w.procTask, h[idx].text)]

ProcessUserMessageFirstUser(w) ==
  IF w.isProcessing THEN w
  ELSE LET h == w.conversationHistory
           us == {i \in 1..Len(h) : h[i].sender = "user"}
           idx == IF us = {} THEN 0 ELSE CHOOSE i \in us : \A j \in us : i <= j
       IN IF idx = 0
            THEN [SetState(w, IDLE) EXCEPT !.isProcessing = FALSE]
          ELSE IF HasResponse(h, idx)
            THEN [SetState(w, IDLE) EXCEPT !.isProcessing = FALSE]
          ELSE [w EXCEPT !.isProcessing = TRUE,
                         !.procStarts = w.procStarts + 1,
                         !.procTask = Append(w.procTask, h[idx].text)]

ProcessUserMessage(w) ==
  IF w.isProcessing THEN w
  ELSE LET h == w.conversationHistory
           idx == LastUserIndex(h)
       IN IF idx = 0
            THEN [SetState(w, IDLE) EXCEPT !.isProcessing = FALSE]
          ELSE IF HasResponse(h, idx)
            THEN [SetState(w, IDLE) EXCEPT !.isProcessing = FALSE]
          ELSE [w EXCEPT !.isProcessing = TRUE,
                         !.procStarts = w.procStarts + 1,
                         !.procTask = Append(w.procTask, h[idx].text)]

getAgentResponse(userMessage) == "I understand you said: " \o userMessage

\* the onTranscription handler registered in PopupController.init
OnTranscription(w, text) == ProcessUserMessage(AddChatMessage(w, text, "user"))

\* -------------------------------------------------------- SpeechService
RECURSIVE SumSq(_, _)
\* sum over the frame of (dataArray[i] - 128)^2, as the loop of checkVolume
SumSq(frame, i) ==
  IF i = 0 THEN 0
  ELSE (frame[i] - SampleMid) * (frame[i] - SampleMid) + SumSq(frame, i - 1)

\* rms < silenceThreshold, with rms = sqrt(sum of ((x-128)/128)^2 / length)
BelowThreshold(frame) ==
  SumSq(frame, FrameLen) * SilenceThresholdDen * SilenceThresholdDen
    < SilenceThresholdNum * SilenceThresholdNum * SampleMid * SampleMid * FrameLen

FreeTimers(w) == {t \in TimerIds : w.pend[t] = -1}
SetTimeout(w) == CHOOSE t \in FreeTimers(w) : \A u \in FreeTimers(w) : t <= u

\* if (this.silenceTimer) { clearTimeout(this.silenceTimer); this.silenceTimer = null }
ClearSilenceTimer(w) ==
  IF w.silenceTimer # 0
    THEN [w EXCEPT !.pend[w.silenceTimer] = -1, !.silenceTimer = 0]
    ELSE w

CheckVolumeKeepsTimer(w, frame) ==
  IF BelowThreshold(frame)
    THEN IF w.silenceTimer = 0
           THEN [w EXCEPT !.silenceTimer = SetTimeout(w),
                          !.pend[SetTimeout(w)] = silenceDuration]
           ELSE w
    ELSE [w EXCEPT !.sinceLoud = 0]

\* one pass of checkVolume after its isRecording test
CheckVolume(w, frame) ==
  IF BelowThreshold(frame)
    THEN IF w.silenceTimer = 0
           THEN [w EXCEPT !.silenceTimer = SetTimeout(w),
                          !.pend[SetTimeout(w)] = silenceDuration]
           ELSE w
    ELSE ClearSilenceTimer([w EXCEPT !.sinceLoud = 0])

\* detectSilence, called for the recorder r just started
DetectSilence(w, r, frame) ==
  IF ~w.isRecording \/ w.analyser = 0 THEN w
  ELSE CheckVolume([w EXCEPT !.loops = w.loops \cup {r}], frame)

StopRecordingKeepsTimer(w) ==
  IF ~w.isRecording THEN w
  ELSE LET w1 == [w EXCEPT !.isRecording = FALSE]
       IN IF w1.mediaRecorder # 0 /\ w1.recorders[w1.mediaRecorder] # "inactive"
            THEN [w1 EXCEPT !.recorders[w1.mediaRecorder] = "inactive",
                            !.stopQueue = w1.stopQueue \cup {w1.mediaRecorder}]
            ELSE w1

StopRecording(w) ==
  IF ~w.isRecording THEN w
  ELSE LET w1 == ClearSilenceTimer([w EXCEPT !.isRecording = FALSE])
       IN IF w1.mediaRecorder # 0 /\ w1.recorders[w1.mediaRecorder] # "inactive"
            THEN [w1 EXCEPT !.recorders[w1.mediaRecorder] = "inactive",
                            !.stopQueue = w1.stopQueue \cup {w1.mediaRecorder}]
            ELSE w1

StartOutcomes == {"ok", "graphFail", "recorderFail", "startFail"}
\* the first frame is sampled only when the start succeeds
FirstFrames(outcome) ==
  IF outcome = "ok" THEN Frames ELSE {[i \in 1..FrameLen |-> SampleMid]}
NextRecorder(w) == Cardinality({r \in RecIds : w.recorders[r] # "none"}) + 1

\* startRecording from `this.audioChunks = []` on (the stream is set);
\* result: the state and the success flag of the returned object
StartRecordingBody(w, outcome, frame) ==
  LET w1 == UpdateState([w EXCEPT !.audioChunks = << >>, !.isRecording = TRUE],
                        "recording", "Listening...")
      w2 == [w1 EXCEPT !.analyser = w1.analyser + 1]
      r  == NextRecorder(w2)
      w3 == [w2 EXCEPT !.mediaRecorder = r, !.recorders[r] = "inactive",
                       !.emitLog[r] = << "recording" >>]
      w4 == [w3 EXCEPT !.recorders[r] = "recording"]
  IN CASE outcome = "graphFail" -> << UpdateState(w1, "error", outcome), FALSE >>
       [] outcome = "recorderFail" -> << UpdateState(w2, "error", outcome), FALSE >>
       [] outcome = "startFail" -> << Emit(w3, r, "error", outcome), FALSE >>
       [] OTHER -> << DetectSilence(w4, r, frame), TRUE >>

\* startRecording when getUserMedia rejects: the catch block only
StartRecordingRejectedSetsFlag(w) ==
  << UpdateState([w EXCEPT !.isRecording = TRUE], "error", "NotAllowedError"),
     FALSE >>

StartRecordingRejected(w) ==
  << UpdateState(w, "error", "NotAllowedError"), FALSE >>

\* PopupController.startListening after `await startRecording()`
AfterStartRecording(res) ==
  LET w == res[1]
  IN IF ~res[2] THEN Alert(SetState(w, IDLE))
     ELSE IF w.analyser # 0 THEN [w EXCEPT !.isVisualizing = TRUE]
     ELSE w

TooShort == "Recording too short. Please speak longer."
TranscriptionFailed == "Transcription failed"

RECURSIVE BlobSize(_)
BlobSize(chunks) ==
  IF chunks = << >> THEN 0 ELSE Head(chunks) + BlobSize(Tail(chunks))

\* fetch('http://127.0.0.1:5000/transcribe', ...) for recorder r
SendTranscribe(w, r) ==
  [w EXCEPT !.tasks[r] = [phase |-> "transcribe", text |-> ""],
            !.events = Append(w.events, Event("request", "transcribe", ""))]

ProcessAudioNoSizeCheck(w, r) ==
  SendTranscribe(Emit([w EXCEPT !.procCount[r] = w.procCount[r] + 1],
                      r, "processing", "Processing your speech..."), r)

\* processAudio up to `await this.transcribeAudio(audioFile)`
ProcessAudio(w, r) ==
  LET w1 == Emit([w EXCEPT !.procCount[r] = w.procCount[r] + 1],
                 r, "processing", "Processing your speech...")
  IN IF BlobSize(w1.audioChunks) < MinBlobSize
       THEN Emit(w1, r, "error", TooShort)
       ELSE SendTranscribe(w1, r)

\* ondataavailable followed by onstop of recorder r
OnRecorderStop(w, r, size) ==
  LET w1 == [w EXCEPT !.stopQueue = w.stopQueue \ {r},
                      !.stopHandled = w.stopHandled \cup {r},
                      !.audioChunks = IF size > 0 THEN Append(w.audioChunks, size)
                                      ELSE w.audioChunks]
  IN IF Len(w1.audioChunks) > 0 THEN ProcessAudio(w1, r) ELSE w1

\* responses of the transcription endpoint; "" is a body without text
Responses ==
  [ok : BOOLEAN, status : {"success", "error"}, hasText : BOOLEAN]
    \cup {[ok |-> FALSE, status |-> "network", hasText |-> FALSE]}
Utterance(r) == "utterance " \o ToString(r)

transcribeAudioIgnoresStatus(resp, r) ==
  IF resp.status = "network" \/ ~resp.ok
    THEN [failed |-> TRUE, text |-> ""]
    ELSE [failed |-> FALSE,
          text |-> IF resp.hasText THEN Utterance(r) ELSE "undefined"]

\* transcribeAudio: throws (failed) or returns {text: result.text}
transcribeAudio(resp, r) ==
  IF resp.status = "network" \/ ~resp.ok \/ resp.status # "success"
    THEN [failed |-> TRUE, text |-> ""]
    ELSE [failed |-> FALSE,
          text |-> IF resp.hasText THEN Utterance(r) ELSE "undefined"]

\* processAudio after storeTranscription: 'completed', then the callback
Completed(w, r) ==
  OnTranscription(Emit([w EXCEPT !.tasks[r] = NoTask], r, "completed",
                       w.tasks[r].text),
                  w.tasks[r].text)

\* ----------------------------------------------------- WidgetController
\* addChatMessage: it returns before the push when the page has no element
\* with the id of the chat container
WAddChatMessage(w, text, sender) ==
  IF ~chatContainer
    THEN [w EXCEPT !.events = Append(w.events, Event("chat", sender, text))]
  ELSE AddChatMessage(w, text, sender)

\* processUserMessage up to its first await: it keeps the last entry of the
\* history ("" stands for the undefined entry of an empty history)
WProcessUserMessage(w) ==
  LET h == w.conversationHistory
  IN [w EXCEPT !.procStarts = w.procStarts + 1,
               !.procTask = Append(w.procTask,
                                   IF Len(h) = 0 THEN "" ELSE h[Len(h)].text)]

WHandleStateChange(w, oldState, newState) ==
  LET w1 == IF oldState = LISTENING THEN WaveformStop(w) ELSE w
  IN IF newState = THINKING THEN WProcessUserMessage(w1) ELSE w1

WSetStateNoGuard(w, newState) ==
  WHandleStateChange([w EXCEPT !.currentState = newState,
                               !.stateLog = Append(w.stateLog, newState)],
                     w.currentState, newState)

WSetState(w, newState) ==
  IF w.currentState = newState THEN w
  ELSE WHandleStateChange([w EXCEPT !.currentState = newState,
                                    !.stateLog = Append(w.stateLog, newState)],
                          w.currentState, newState)

\* handleUserMessage, the onResult handler
WHandleUserMessage(w, transcript) ==
  WSetState(WAddChatMessage(w, transcript, "user"), THINKING)

\* VoiceRecognition.start: recognition.start() throws when it is already
\* started and the exception is swallowed
VoiceRecognitionStart(w) ==
  IF w.rec = "off" THEN [w EXCEPT !.rec = "starting"] ELSE w

\* ------------------------------------------------------------- actions
Popup == ctl \in {"popup", "api", "page"}
AttemptLimit == IF ctl = "popup" THEN MaxRec ELSE MaxApiRec

ClickOutsideIdleStops(w) ==
  IF w.currentState = LISTENING THEN WaveformStop(StopRecording(w)) ELSE w

\* handleVoiceButtonClick in LISTENING, THINKING and RESPONDING: the cases of
\* the switch hold no statement
ClickOutsideIdle(w) == w

\* a click on the voice button: handleVoiceButtonClick, startListening and
\* startRecording up to its first await
Click(outcome, frame) ==
  /\ Popup
  /\ IF currentState # IDLE
       THEN Commit(ClickOutsideIdle(World), "clickIgnored")
     ELSE IF isRecording
       THEN Commit(AfterStartRecording(<< World, FALSE >>), "clickRefused")
     ELSE /\ nAttempts < AttemptLimit
          /\ IF ~stream
               THEN Commit([World EXCEPT !.acquiring = acquiring + 1,
                                         !.nAttempts = nAttempts + 1,
                                         !.events = << GetUserMedia >>],
                           "step")
               ELSE \E w \in Worlds :
                      Commit(AfterStartRecording(
                               StartRecordingBody(
                                 [w EXCEPT !.nAttempts = nAttempts + 1],
                                 outcome, frame)),
                             "step")

\* the outcome of the start matters only to a click that reaches
\* `this.audioChunks = []` at once, that is when the stream is already set
ClickOutcomes ==
  IF currentState = IDLE /\ ~isRecording /\ stream THEN StartOutcomes ELSE {"ok"}

\* getUserMedia resolves for one waiting startRecording
AcquireDone(outcome, frame) ==
  /\ Popup
  /\ acquiring > 0
  /\ \E w \in Worlds :
       Commit(AfterStartRecording(
                StartRecordingBody([w EXCEPT !.acquiring = acquiring - 1,
                                             !.stream = TRUE],
                                   outcome, frame)),
              "step")

\* getUserMedia rejects for one waiting startRecording
AcquireRejected ==
  /\ Popup
  /\ acquiring > 0
  /\ \E w \in Worlds :
       Commit(AfterStartRecording(
                StartRecordingRejected([w EXCEPT !.acquiring = acquiring - 1])),
              "acquireRejected")

\* the requestAnimationFrame callback of loop l
Frame(l, frame) ==
  /\ Popup
  /\ l \in loops
  /\ IF ~isRecording
       THEN Commit([World EXCEPT !.loops = loops \ {l}], "step")
       ELSE Commit(CheckVolume(
                     [World EXCEPT !.staleSampled = recorders[l] # "recording"],
                     frame),
                   "step")

\* the silence timeout t elapses: () => this.stopRecording()
SilenceTimeout(t) ==
  /\ Popup
  /\ pend[t] = 0
  /\ Commit(StopRecording([World EXCEPT !.pend[t] = -1]),
            IF isRecording THEN "silenceTimeout" ELSE "silenceTimeoutNoop")

\* time passes; a timeout that is due fires first
Tick ==
  /\ Popup
  /\ \A t \in TimerIds : pend[t] # 0
  /\ isRecording \/ \E t \in TimerIds : pend[t] > 0
  /\ Commit([World EXCEPT
               !.pend = [t \in TimerIds |->
                           IF pend[t] = -1 THEN -1
                           ELSE IF pend[t] > TickMs THEN pend[t] - TickMs ELSE 0],
               !.sinceLoud = IF sinceLoud + TickMs > silenceDuration
                               THEN silenceDuration ELSE sinceLoud + TickMs],
            "step")

\* the chunks make a payload that is not empty but below the minimum size
ShortPayload(chunks) == Len(chunks) > 0 /\ BlobSize(chunks) < MinBlobSize

\* the queued dataavailable and stop events of recorder r
RecorderStopped(r, size) ==
  /\ Popup
  /\ r \in stopQueue
  /\ \E w \in Worlds :
       Commit(OnRecorderStop(w, r, size),
              IF ShortPayload(IF size > 0 THEN Append(audioChunks, size)
                              ELSE audioChunks)
                THEN "shortRecording" ELSE "step")

\* the response is not 2xx or its status is not "success"
ErrorResponse(resp) == ~resp.ok \/ resp.status # "success"

\* the transcription request of recorder r's processAudio completes
TranscribeDone(r, resp) ==
  /\ Popup
  /\ tasks[r].phase = "transcribe"
  /\ LET res == transcribeAudio(resp, r)
         op == IF ErrorResponse(resp) THEN "transcribeError" ELSE "step"
     IN IF res.failed
          THEN \E w \in Worlds :
                 Commit(Emit([w EXCEPT !.tasks[r] = NoTask], r, "error",
                             TranscriptionFailed),
                        op)
          ELSE \E w \in Worlds :
                 Commit(Completed(
                          [w EXCEPT !.tasks[r] =
                             [phase |-> "store", text |-> res.text]], r),
                        op)

\* processUserMessage resumes after its delay and getAgentResponse
ProcessDone(i) ==
  /\ Popup \/ ctl = "log"
  /\ i \in 1..Len(procTask)
  /\ LET w1 == AddChatMessage(World, getAgentResponse(procTask[i]), "bot")
         w2 == SetState(w1, RESPONDING)
     IN Commit([w2 EXCEPT !.idleTimers = idleTimers + 1,
                          !.isProcessing = FALSE,
                          !.procTask = SubSeq(procTask, 1, i - 1)
                                         \o SubSeq(procTask, i + 1, Len(procTask))],
               "processDone")

\* the delayed return to idle scheduled by processUserMessage
IdleTimer ==
  /\ Popup \/ ctl = "log"
  /\ idleTimers > 0
  /\ Commit(SetState([World EXCEPT !.idleTimers = idleTimers - 1], IDLE),
            "idleTimer")

\* PopupController.stopListening called directly
StopListening ==
  /\ ctl = "api"
  /\ Commit(WaveformStop(StopRecording(World)),
            IF ~isRecording THEN "stopNoop"
            ELSE IF silenceTimer # 0 THEN "stopCancelsTimer"
            ELSE "stopListening")

\* PopupController.processUserMessage called directly
CallProcessUserMessage ==
  /\ ctl \in {"api", "log"}
  /\ Commit(ProcessUserMessage(World),
            IF isProcessing THEN "callProcessBusy" ELSE "callProcess")

\* ---------------------------------------------- WidgetController actions
Widget == ctl = "widget"
NextTranscript ==
  Utterance(Cardinality({i \in 1..Len(conversationHistory) :
                           conversationHistory[i].sender = "user"}) + 1)

\* a click: handleVoiceButtonClick and startListening up to the point where
\* WaveformVisualizer.start awaits getUserMedia
WClick ==
  /\ Widget
  /\ IF currentState # IDLE
       THEN Commit(ClickOutsideIdle(World), "clickIgnored")
     ELSE /\ nAttempts < MaxRec
          /\ LET w1 == WSetState([World EXCEPT !.nAttempts = nAttempts + 1],
                                 LISTENING)
             IN IF isVisualizing \/ stream
                  THEN Commit(VoiceRecognitionStart(
                                [w1 EXCEPT !.isVisualizing = TRUE]), "step")
                  ELSE Commit([w1 EXCEPT !.acquiring = acquiring + 1], "step")

\* getUserMedia of the visualizer resolves or rejects
WMicDone(granted) ==
  /\ Widget
  /\ acquiring > 0
  /\ IF granted
       THEN Commit(VoiceRecognitionStart(
                     [World EXCEPT !.acquiring = acquiring - 1,
                                   !.stream = TRUE,
                                   !.isVisualizing = TRUE]), "step")
       ELSE Commit(WSetState([World EXCEPT !.acquiring = acquiring - 1], IDLE),
                   "step")

\* recognition.onstart
WRecStart ==
  /\ Widget
  /\ rec = "starting"
  /\ Commit(WSetState([World EXCEPT !.rec = "on"], LISTENING), "wRecStart")

\* recognition.onresult with a final, non-empty transcript
WResult ==
  /\ Widget
  /\ rec = "on"
  /\ Commit(WHandleUserMessage([World EXCEPT !.rec = "final"], NextTranscript),
            "step")

\* recognition.onerror (onend follows)
WRecError ==
  /\ Widget
  /\ rec \in {"starting", "on", "final"}
  /\ Commit(WSetState([World EXCEPT !.rec = "failing"], IDLE), "step")

\* recognition.onend
WRecEnd ==
  /\ Widget
  /\ rec \in {"on", "final", "failing"}
  /\ LET w1 == [World EXCEPT !.rec = "off"]
     IN Commit(IF currentState = LISTENING THEN WSetState(w1, THINKING) ELSE w1,
               "step")

\* processUserMessage resumes: reading .text of an undefined entry throws
WProcessDone(i) ==
  /\ Widget
  /\ i \in 1..Len(procTask)
  /\ LET rest == SubSeq(procTask, 1, i - 1) \o SubSeq(procTask, i + 1, Len(procTask))
         w0 == [World EXCEPT !.procTask = rest]
     IN IF procTask[i] = ""
          THEN Commit(w0, "step")
          ELSE LET w1 == WAddChatMessage(w0, getAgentResponse(procTask[i]), "bot")
                   w2 == WSetState(w1, RESPONDING)
               IN Commit([w2 EXCEPT !.idleTimers = idleTimers + 1],
                         "wProcessDone")

WIdleTimer ==
  /\ Widget
  /\ idleTimers > 0
  /\ Commit(WSetState([World EXCEPT !.idleTimers = idleTimers - 1], IDLE),
            "wIdleTimer")

\* ---------------------------------------------------- background script
ReqIds == 1..MaxReq
MessageTypes == {"PROCESS_USER_MESSAGE", "SPEECH_STATE_CHANGE"}
\* results of DOMAnnotator.createAnnotatedHtml as executeScript reports them:
\* no result, the empty list (truthy) or a list of elements
PageResults == {"none", "[]", "[{id-1}]"}
\* replies of the agent service: fetch rejects, or a response with these
\* properties ("" is a missing field)
AgentReplies ==
  {[ok |-> FALSE, status |-> "network", message |-> "", result |-> ""]}
    \cup [ok : BOOLEAN, status : {"success", "error"},
          message : {"", "bad request"}, result : {"", "click id-1"}]
NoReply == [ok |-> FALSE, status |-> "pending", message |-> "", result |-> ""]

\* a message as the listener sees it: what it received, what happened to it
\* (hasTab, injected, page, alertOk, reply) and what the handler did with it
NoRequest ==
  [type |-> "", phase |-> "none", text |-> "", hasTab |-> FALSE,
   injected |-> "", page |-> "", alertOk |-> "", reply |-> NoReply,
   sent |-> << >>, responses |-> << >>]

\* JSON.stringify(annotatedHtml, null, 2)
Stringify(page) == "json " \o page

\* sendResponse(...)
SendResponse(b, status, payload) ==
  [b EXCEPT !.phase = "done",
            !.responses = Append(b.responses,
                                 [status |-> status, payload |-> payload])]

CatchLosesError(b, message) == [b EXCEPT !.phase = "done"]

\* catch (error) { sendResponse({ status: 'error', payload: error.message }) }
Catch(b, message) == SendResponse(b, "error", message)

\* the listener up to `await getAnnotatedHtml(sender.tab.id)`
OnMessage(type, text, hasTab) ==
  LET b == [NoRequest EXCEPT !.type = type, !.text = text, !.hasTab = hasTab]
  IN IF type # "PROCESS_USER_MESSAGE" THEN [b EXCEPT !.phase = "ignored"]
     ELSE IF ~hasTab
       THEN Catch(b, "Cannot read properties of undefined (reading 'id')")
     ELSE [b EXCEPT !.phase = "inject"]

\* getAnnotatedHtml after the first executeScript (files: annotator.js)
AfterInject(b, ok) ==
  IF ok THEN [b EXCEPT !.phase = "annotate", !.injected = "yes"]
  ELSE Catch([b EXCEPT !.injected = "no"], "Cannot access contents of the page")

\* getAnnotatedHtml after the second executeScript, then getAgentResponses
\* up to its fetch: alert(...) (not defined in a service worker), then the
\* request with the transcription and the stringified page context
AfterAnnotate(b, page, alertOk) ==
  LET b1 == [b EXCEPT !.page = page]
      b2 == [b1 EXCEPT !.alertOk = IF alertOk THEN "yes" ELSE "no"]
  IN IF page = "none"
       THEN Catch(b1, "Failed to get annotated payload from the page.")
     ELSE IF ~alertOk THEN Catch(b2, "alert is not defined")
     ELSE [b2 EXCEPT !.phase = "agent",
                     !.sent = << [message |-> b.text,
                                  context |-> Stringify(page)] >>]

AgentOutcomeIgnoresStatus(reply) ==
  IF reply.status = "network"
    THEN [failed |-> TRUE, value |-> "Failed to fetch"]
  ELSE IF ~reply.ok
    THEN [failed |-> TRUE,
          value |-> IF reply.message # "" THEN reply.message
                    ELSE "Agent API request failed with status: 500"]
  ELSE [failed |-> FALSE, value |-> reply.result]

\* getAgentResponses after its fetch: throws (failed) or returns data.result
AgentOutcome(reply) ==
  IF reply.status = "network"
    THEN [failed |-> TRUE, value |-> "Failed to fetch"]
  ELSE IF ~reply.ok
    THEN [failed |-> TRUE,
          value |-> IF reply.message # "" THEN reply.message
                    ELSE "Agent API request failed with status: 500"]
  ELSE IF reply.status # "success"
    THEN [failed |-> TRUE,
          value |-> IF reply.message # "" THEN reply.message
                    ELSE "Agent API returned a failure status."]
  ELSE [failed |-> FALSE, value |-> reply.result]

\* the listener after `await getAgentResponses(...)`
AfterAgent(b, reply) ==
  LET b1 == [b EXCEPT !.reply = reply]
      res == AgentOutcome(reply)
  IN IF res.failed THEN Catch(b1, res.value)
     ELSE SendResponse(b1, "success", res.value)

Background == ctl = "background"

\* chrome.runtime.onMessage delivers a message to the listener
BgMessage(r, type, hasTab) ==
  /\ Background
  /\ bg[r].phase = "none"
  /\ \A q \in ReqIds : q < r => bg[q].phase # "none"
  /\ bg' = [bg EXCEPT ![r] = OnMessage(type, "text " \o ToString(r), hasTab)]
  /\ UNCHANGED << ctl, viz, dom, tts, inj, controllerVars >>

BgInjectDone(r, ok) ==
  /\ Background
  /\ bg[r].phase = "inject"
  /\ bg' = [bg EXCEPT ![r] = AfterInject(bg[r], ok)]
  /\ UNCHANGED << ctl, viz, dom, tts, inj, controllerVars >>

BgAnnotateDone(r, page, alertOk) ==
  /\ Background
  /\ bg[r].phase = "annotate"
  /\ bg' = [bg EXCEPT ![r] = AfterAnnotate(bg[r], page, alertOk)]
  /\ UNCHANGED << ctl, viz, dom, tts, inj, controllerVars >>

BgAgentDone(r, reply) ==
  /\ Background
  /\ bg[r].phase = "agent"
  /\ bg' = [bg EXCEPT ![r] = AfterAgent(bg[r], reply)]
  /\ UNCHANGED << ctl, viz, dom, tts, inj, controllerVars >>

\* ---------------------------------------------------- WaveformVisualizer
\* the fields after the constructor; ownLive and ownOpen count the streams
\* with live tracks and the open audio contexts the visualizer created,
\* sharedTracks and ownerContext are the stream and the audio context of the
\* SpeechService whose analyser it may be given; call and requested describe
\* the last call
NewVisualizer ==
  [isVisualizing |-> FALSE, usingExternalAnalyser |-> FALSE,
   initialized |-> FALSE, analyser |-> "null", stream |-> "null",
   microphone |-> "null", audioContext |-> "null", animationFrame |-> FALSE,
   pending |-> 0, nRequests |-> 0, ownLive |-> 0, ownOpen |-> 0,
   sharedTracks |-> "live", ownerContext |-> "running",
   call |-> "new", requested |-> FALSE]

\* draw(): schedules the next frame when there is something to draw
Draw(v) ==
  IF v.isVisualizing /\ v.analyser # "null"
    THEN [v EXCEPT !.animationFrame = TRUE] ELSE v

\* start() after `await this.requestMicrophoneAccess()`
VzAfterAccess(v, hasAccess) ==
  IF ~hasAccess \/ v.analyser = "null" THEN v
  ELSE Draw([v EXCEPT !.isVisualizing = TRUE])

VzStartIgnoresAnalyser(v, externalAnalyser) ==
  IF v.isVisualizing THEN v
  ELSE LET v1 == [v EXCEPT !.usingExternalAnalyser = FALSE]
       IN IF v1.initialized /\ v1.stream # "null" THEN VzAfterAccess(v1, TRUE)
          ELSE [v1 EXCEPT !.pending = v.pending + 1,
                          !.nRequests = v.nRequests + 1,
                          !.requested = TRUE]

\* start(externalAnalyser) up to its first await
VzStart(v, externalAnalyser) ==
  IF v.isVisualizing THEN v
  ELSE IF externalAnalyser
    THEN Draw([v EXCEPT !.analyser = "shared",
                        !.usingExternalAnalyser = TRUE,
                        !.initialized = TRUE, !.isVisualizing = TRUE])
  ELSE LET v1 == [v EXCEPT !.usingExternalAnalyser = FALSE]
       IN IF v1.initialized /\ v1.stream # "null" THEN VzAfterAccess(v1, TRUE)
          ELSE [v1 EXCEPT !.pending = v.pending + 1,
                          !.nRequests = v.nRequests + 1,
                          !.requested = TRUE]

\* requestMicrophoneAccess after getUserMedia, and the rest of start()
VzAccessDone(v, ok) ==
  LET v1 == [v EXCEPT !.pending = v.pending - 1]
  IN IF ~ok THEN VzAfterAccess(v1, FALSE)
     ELSE VzAfterAccess([v1 EXCEPT !.stream = "own", !.audioContext = "running",
                                   !.analyser = "own",
                                   !.microphone = "connected",
                                   !.initialized = TRUE,
                                   !.ownLive = v.ownLive + 1,
                                   !.ownOpen = v.ownOpen + 1],
                        TRUE)

\* stop()
VzStop(v) == [v EXCEPT !.isVisualizing = FALSE, !.animationFrame = FALSE]

\* cleanup()
VzCleanup(v) ==
  LET v1 == VzStop(v)
      v2 == IF ~v1.usingExternalAnalyser
              THEN [v1 EXCEPT
                      !.microphone = IF v1.microphone = "null" THEN "null"
                                     ELSE "disconnected",
                      !.ownLive = IF v1.stream # "null" THEN v1.ownLive - 1
                                  ELSE v1.ownLive,
                      !.ownOpen = IF v1.audioContext = "running"
                                    THEN v1.ownOpen - 1 ELSE v1.ownOpen,
                      !.audioContext = IF v1.audioContext = "null" THEN "null"
                                       ELSE "closed",
                      !.stream = "null", !.analyser = "null"]
              ELSE [v1 EXCEPT !.analyser = "null",
                              !.usingExternalAnalyser = FALSE]
  IN [v2 EXCEPT !.initialized = FALSE]

Visualizer == ctl = "visualizer"

\* the start of a call: nothing requested yet
Called(name) == [viz EXCEPT !.call = name, !.requested = FALSE]

VStart(externalAnalyser) ==
  /\ Visualizer
  /\ externalAnalyser \/ viz.nRequests < MaxMic
  /\ viz' = VzStart(Called(IF externalAnalyser THEN "startShared" ELSE "start"),
                    externalAnalyser)
  /\ UNCHANGED << ctl, bg, dom, tts, inj, controllerVars >>

VMicDone(ok) ==
  /\ Visualizer
  /\ viz.pending > 0
  /\ viz' = VzAccessDone(Called("access"), ok)
  /\ UNCHANGED << ctl, bg, dom, tts, inj, controllerVars >>

VStop ==
  /\ Visualizer
  /\ viz' = VzStop(Called(IF viz.usingExternalAnalyser THEN "stopShared"
                           ELSE "stop"))
  /\ UNCHANGED << ctl, bg, dom, tts, inj, controllerVars >>

VCleanup ==
  /\ Visualizer
  /\ viz' = VzCleanup(Called(IF viz.usingExternalAnalyser
                                THEN "cleanupShared" ELSE "cleanup"))
  /\ UNCHANGED << ctl, bg, dom, tts, inj, controllerVars >>

\* ---------------------------------------------------------- DOMAnnotator
\* the elements of the page in document order: whether the element is in
\* the document, whether it matches the selector of interactive elements,
\* and its data-id attribute ("" when it has none)
ElemIds == 1..MaxElems
InitialPages ==
  {[elems |-> el, payload |-> << >>, call |-> "new", found |-> 0] :
     el \in [ElemIds -> [present : BOOLEAN, matches : BOOLEAN, dataId : {""}]]}

NoPage ==
  [elems |-> [e \in ElemIds |->
                [present |-> FALSE, matches |-> FALSE, dataId |-> ""]],
   payload |-> << >>, call |-> "new", found |-> 0]

\* `id-${counter}`
IdOf(counter) == "id-" \o ToString(counter)

\* doc.querySelectorAll(selector): the matching elements in document order
RECURSIVE QuerySelectorAll(_, _)
QuerySelectorAll(d, e) ==
  IF e > MaxElems THEN << >>
  ELSE (IF d.elems[e].present /\ d.elems[e].matches THEN << e >> ELSE << >>)
         \o QuerySelectorAll(d, e + 1)

\* doc.querySelector(`[data-id="${id}"]`): the first element in document
\* order with that attribute value, 0 for null
QuerySelector(d, id) ==
  LET hits == {e \in ElemIds : d.elems[e].present /\ d.elems[e].dataId = id}
  IN IF hits = {} THEN 0 ELSE CHOOSE e \in hits : \A f \in hits : e <= f

\* createAnnotatedHtml(doc): numbers the interactive elements from 1, writes
\* the id of each into its data-id attribute and returns the list; elem is
\* the element the entry was generated for
CreateAnnotatedHtml(d) ==
  LET found == QuerySelectorAll(d, 1)
  IN [d EXCEPT
        !.elems = [e \in ElemIds |->
                     IF \E k \in 1..Len(found) : found[k] = e
                       THEN [d.elems[e] EXCEPT
                               !.dataId = IdOf(CHOOSE k \in 1..Len(found) :
                                                 found[k] = e)]
                       ELSE d.elems[e]],
        !.payload = [k \in 1..Len(found) |-> [id |-> IdOf(k), elem |-> found[k]]],
        !.call = "annotate", !.found = 0]

\* findAndHighlight(aiResponseString, doc) for a response naming entry k of
\* the payload
FindAndHighlight(d, k) ==
  [d EXCEPT !.call = d.payload[k].id,
            !.found = QuerySelector(d, d.payload[k].id)]

Annotator == ctl = "annotator"

\* the page changes: an element is removed or inserted, or it starts or
\* stops matching the selector (a role attribute is set or removed)
DomChange(e, attr) ==
  /\ Annotator
  /\ dom' = [dom EXCEPT
               !.elems[e] = IF attr = "present"
                              THEN [@ EXCEPT !.present = ~@]
                              ELSE [@ EXCEPT !.matches = ~@],
               !.call = "change", !.payload = << >>, !.found = 0]
  /\ UNCHANGED << ctl, bg, viz, tts, inj, controllerVars >>

Annotate ==
  /\ Annotator
  /\ dom' = CreateAnnotatedHtml(dom)
  /\ UNCHANGED << ctl, bg, viz, tts, inj, controllerVars >>

Find(k) ==
  /\ Annotator
  /\ k \in 1..Len(dom.payload)
  /\ dom' = FindAndHighlight(dom, k)
  /\ UNCHANGED << ctl, bg, viz, tts, inj, controllerVars >>

\* ------------------------------------------------------------ TTSService
\* speak() call n makes at most one Audio, audio n
SpeakIds == 1..MaxSpeak
Texts == {"", " ", "hello"}

\* the fields after the constructor; audios is the state of each Audio
\* element, waiting the speak() calls that await the server
NewTTS ==
  [isPlaying |-> FALSE, currentAudio |-> 0,
   audios |-> [a \in SpeakIds |-> "none"], waiting |-> {}, nSpeaks |-> 0,
   call |-> "new"]

\* stop()
TtsStop(t) ==
  LET t1 == IF t.currentAudio # 0
              THEN [t EXCEPT !.audios[t.currentAudio] =
                               IF @ = "playing" THEN "paused" ELSE @,
                             !.currentAudio = 0]
              ELSE t
  IN [t1 EXCEPT !.isPlaying = FALSE]

\* !text || text.trim() === ''
IsBlank(text) == text \in {"", " "}

\* speak(text) up to `await fetch(...)`
TtsSpeak(t, text) ==
  LET t1 == [TtsStop(t) EXCEPT !.nSpeaks = t.nSpeaks + 1]
  IN IF IsBlank(text) THEN t1
     ELSE [t1 EXCEPT !.waiting = t1.waiting \cup {t1.nSpeaks}]

\* speak() after the reply of the server for call n: "failed" is a non-2xx
\* reply or a body without audio (return), "rejected" a rejected fetch
\* (catch); with audio, the Audio is made and play() is called, which may
\* be rejected (catch)
TtsAfterFetch(t, n, reply, played) ==
  LET t1 == [t EXCEPT !.waiting = t.waiting \ {n}]
  IN CASE reply = "failed" -> t1
       [] reply = "rejected" -> [t1 EXCEPT !.isPlaying = FALSE]
       [] OTHER ->
            IF played
              THEN [t1 EXCEPT !.currentAudio = n, !.isPlaying = TRUE,
                              !.audios[n] = "playing"]
              ELSE [t1 EXCEPT !.currentAudio = n, !.isPlaying = FALSE,
                              !.audios[n] = "blocked"]

\* the onended and onerror handlers of an Audio
TtsAudioOver(t, a, how) ==
  [t EXCEPT !.audios[a] = how, !.isPlaying = FALSE, !.currentAudio = 0]

Tts == ctl = "tts"

Speak(text) ==
  /\ Tts
  /\ tts.nSpeaks < MaxSpeak
  /\ tts' = [TtsSpeak(tts, text) EXCEPT !.call = "speak"]
  /\ UNCHANGED << ctl, bg, viz, dom, inj, controllerVars >>

SpeakReply(n, reply, played) ==
  /\ Tts
  /\ n \in tts.waiting
  /\ tts' = [TtsAfterFetch(tts, n, reply, played) EXCEPT !.call = "reply"]
  /\ UNCHANGED << ctl, bg, viz, dom, inj, controllerVars >>

AudioOver(a, how) ==
  /\ Tts
  /\ tts.audios[a] = "playing"
  /\ tts' = [TtsAudioOver(tts, a, how) EXCEPT !.call = how]
  /\ UNCHANGED << ctl, bg, viz, dom, inj, controllerVars >>

StopSpeaking ==
  /\ Tts
  /\ tts' = [TtsStop(tts) EXCEPT !.call = "stop"]
  /\ UNCHANGED << ctl, bg, viz, dom, inj, controllerVars >>

\* -------------------------------------------------------- content script
RunIds == 1..MaxRuns
\* speech-service.js, waveform.js, popup.js
ScriptIds == 1..3
\* the document: being parsed without a body yet, being parsed with a body
\* (readyState 'loading'), or after DOMContentLoaded
DocStates == {"nobody", "loading", "ready"}

\* a page before the content script runs: runs is the position of each
\* execution of the content script, containers the number of elements with
\* id digital-literacy-widget, scripts the script elements by src and owner
\* the execution that waits for each, order the scripts in injection order;
\* controllers counts the PopupController objects made, popupController is
\* window.popupController, onTranscription and onStateChange are the
\* controllers whose handler the SpeechService holds
NewPage(d) ==
  [doc |-> d, runs |-> [r \in RunIds |-> "none"], containers |-> 0,
   scripts |-> [k \in ScriptIds |-> "absent"],
   owner |-> [k \in ScriptIds |-> 0], order |-> << >>,
   domListener |-> FALSE, initTimers |-> 0, controllers |-> 0,
   popupController |-> FALSE, onTranscription |-> {}, onStateChange |-> {}]

Awaiting(k) == "await " \o ToString(k)

\* injectScriptIntoPage for the scripts from k on, up to the first script
\* that has to be loaded
RECURSIVE LoadScripts(_, _, _)
LoadScripts(i, r, k) ==
  IF k > 3 THEN [i EXCEPT !.runs[r] = "done"]
  ELSE IF i.scripts[k] # "absent" THEN LoadScripts(i, r, k + 1)
  ELSE [i EXCEPT !.scripts[k] = "loading", !.owner[k] = r,
                 !.order = Append(i.order, k), !.runs[r] = Awaiting(k)]

\* injectWhenReady
InjectWhenReady(i, r) ==
  IF i.doc = "nobody" THEN [i EXCEPT !.runs[r] = "waitBody"]
  ELSE LET i1 == [i EXCEPT !.containers = i.containers + 1]
       IN IF i1.doc = "loading" THEN [i1 EXCEPT !.runs[r] = "waitDom"]
          ELSE LoadScripts(i1, r, 1)

\* the content script from its first statement
ContentScript(i, r) ==
  IF i.containers > 0 THEN [i EXCEPT !.runs[r] = "skipped"]
  ELSE InjectWhenReady(i, r)

\* new PopupController(): init registers the handlers with the SpeechService
\* when speechService and WaveformVisualizer are defined, and throws before
\* that otherwise
NewPopupController(i) ==
  LET c == i.controllers + 1
      i1 == [i EXCEPT !.controllers = c, !.popupController = TRUE]
  IN IF i.scripts[1] = "loaded" /\ i.scripts[2] = "loaded"
       THEN [i1 EXCEPT !.onTranscription = {c}, !.onStateChange = {c}]
       ELSE i1

\* initPopupController
InitPopupController(i) ==
  IF i.containers > 0 /\ ~i.popupController THEN NewPopupController(i) ELSE i

\* the last statements of popup.js
PopupScript(i) ==
  IF i.doc # "ready" THEN [i EXCEPT !.domListener = TRUE]
  ELSE [InitPopupController(i) EXCEPT !.initTimers = i.initTimers + 1]

\* the DOMContentLoaded listeners of the content script, in the order of
\* their registration
RECURSIVE DomContentLoaded(_, _)
DomContentLoaded(i, r) ==
  IF r > MaxRuns THEN i
  ELSE DomContentLoaded(IF i.runs[r] = "waitDom" THEN LoadScripts(i, r, 1)
                        ELSE i, r + 1)

Inject == ctl = "inject"

\* the browser runs the content script in the page
RunContentScript(r) ==
  /\ Inject
  /\ inj.runs[r] = "none"
  /\ \A q \in RunIds : q < r => inj.runs[q] # "none"
  /\ inj' = ContentScript(inj, r)
  /\ UNCHANGED << ctl, bg, viz, dom, tts, controllerVars >>

\* setTimeout(injectWhenReady, 50) fires
BodyRetry(r) ==
  /\ Inject
  /\ inj.runs[r] = "waitBody"
  /\ inj' = InjectWhenReady(inj, r)
  /\ UNCHANGED << ctl, bg, viz, dom, tts, controllerVars >>

\* the parser reaches the body, or the document is parsed: DOMContentLoaded
DocAdvance ==
  /\ Inject
  /\ inj.doc # "ready"
  /\ inj' = IF inj.doc = "nobody" THEN [inj EXCEPT !.doc = "loading"]
            ELSE LET i1 == DomContentLoaded([inj EXCEPT !.doc = "ready"], 1)
                 IN IF i1.domListener
                      THEN InitPopupController([i1 EXCEPT !.domListener = FALSE])
                      ELSE i1
  /\ UNCHANGED << ctl, bg, viz, dom, tts, controllerVars >>

\* script k is loaded: it runs, then its onload handler resolves the promise
\* of the execution that injected it
ScriptLoaded(k) ==
  /\ Inject
  /\ inj.scripts[k] = "loading"
  /\ LET i1 == [inj EXCEPT !.scripts[k] = "loaded"]
         i2 == IF k = 3 THEN PopupScript(i1) ELSE i1
     IN inj' = LoadScripts(i2, inj.owner[k], k + 1)
  /\ UNCHANGED << ctl, bg, viz, dom, tts, controllerVars >>

\* script k fails to load: onerror rejects and loadScripts ends in its catch
ScriptFailed(k) ==
  /\ Inject
  /\ inj.scripts[k] = "loading"
  /\ inj' = [inj EXCEPT !.scripts[k] = "failed", !.runs[inj.owner[k]] = "failed"]
  /\ UNCHANGED << ctl, bg, viz, dom, tts, controllerVars >>

\* the delayed initPopupController of popup.js
InitRetry ==
  /\ Inject
  /\ inj.initTimers > 0
  /\ inj' = InitPopupController([inj EXCEPT !.initTimers = inj.initTimers - 1])
  /\ UNCHANGED << ctl, bg, viz, dom, tts, controllerVars >>

\* the histories a controller may be given: any entries of either sender
HistoryEntries == [text : {"hello", "help"}, sender : {"user", "bot"}]
Histories ==
  UNION {[1..n -> HistoryEntries] : n \in 0..MaxHist}

Init ==
  /\ ctl \in {"popup", "api", "page", "widget", "background",
             "visualizer", "log", "annotator", "tts",
             "inject"}
  /\ currentState = IDLE
  /\ conversationHistory \in Histories
  /\ ctl # "log" => conversationHistory = << >>
  /\ isProcessing = FALSE
  /\ procTask = << >>
  /\ idleTimers = 0
  /\ isVisualizing = FALSE
  /\ acquiring = 0
  /\ stream = FALSE
  /\ isRecording = FALSE
  /\ audioChunks = << >>
  /\ silenceTimer = 0
  /\ pend = [t \in TimerIds |-> -1]
  /\ mediaRecorder = 0
  /\ recorders = [r \in RecIds |-> "none"]
  /\ stopQueue = {}
  /\ loops = {}
  /\ analyser = 0
  /\ tasks = [r \in RecIds |-> NoTask]
  /\ nAttempts = 0
  /\ rec = "off"
  /\ procStarts = 0
  /\ procCount = [r \in RecIds |-> 0]
  /\ stopHandled = {}
  /\ sinceLoud = silenceDuration
  /\ staleSampled = FALSE
  /\ emitLog = [r \in RecIds |-> << >>]
  /\ events = << >>
  /\ alerts = 0
  /\ bg = [r \in ReqIds |-> NoRequest]
  /\ viz = NewVisualizer
  /\ tts = NewTTS
  /\ inj \in {NewPage(d) : d \in DocStates}
  /\ ctl # "inject" => inj = NewPage("ready")
  /\ dom \in InitialPages
  /\ ctl # "annotator" => dom = NoPage
  /\ chatContainer \in BOOLEAN
  /\ ctl # "widget" => chatContainer
  /\ stateLog = << IDLE >>
  /\ lastOp = "init"

Next ==
  \/ \E o \in ClickOutcomes : \E f \in FirstFrames(o) : Click(o, f)
  \/ \E o \in StartOutcomes : \E f \in FirstFrames(o) : AcquireDone(o, f)
  \/ AcquireRejected
  \/ \E l \in RecIds, f \in Frames : Frame(l, f)
  \/ \E t \in TimerIds : SilenceTimeout(t)
  \/ Tick
  \/ \E r \in RecIds, size \in BlobSizes : RecorderStopped(r, size)
  \/ \E r \in RecIds, resp \in Responses : TranscribeDone(r, resp)
  \/ \E i \in RecIds : ProcessDone(i)
  \/ IdleTimer
  \/ StopListening
  \/ CallProcessUserMessage
  \/ WClick
  \/ \E g \in BOOLEAN : WMicDone(g)
  \/ WRecStart
  \/ WResult
  \/ WRecError
  \/ WRecEnd
  \/ \E i \in RecIds : WProcessDone(i)
  \/ WIdleTimer
  \/ \E r \in ReqIds, t \in MessageTypes, h \in BOOLEAN : BgMessage(r, t, h)
  \/ \E r \in ReqIds, ok \in BOOLEAN : BgInjectDone(r, ok)
  \/ \E r \in ReqIds, p \in PageResults, a \in BOOLEAN : BgAnnotateDone(r, p, a)
  \/ \E r \in ReqIds, reply \in AgentReplies : BgAgentDone(r, reply)
  \/ \E x \in BOOLEAN : VStart(x)
  \/ \E ok \in BOOLEAN : VMicDone(ok)
  \/ VStop
  \/ VCleanup
  \/ \E e \in ElemIds, attr \in {"present", "matches"} : DomChange(e, attr)
  \/ Annotate
  \/ \E k \in ElemIds : Find(k)
  \/ \E text \in Texts : Speak(text)
  \/ \E n \in SpeakIds, reply \in {"audio", "failed", "rejected"},
        played \in BOOLEAN : SpeakReply(n, reply, played)
  \/ \E a \in SpeakIds, how \in {"ended", "failed"} : AudioOver(a, how)
  \/ StopSpeaking
  \/ \E r \in RunIds : RunContentScript(r)
  \/ \E r \in RunIds : BodyRetry(r)
  \/ DocAdvance
  \/ \E k \in ScriptIds : ScriptLoaded(k)
  \/ \E k \in ScriptIds : ScriptFailed(k)
  \/ InitRetry

Spec == Init /\ [][Next]_vars

\* every external call and every timer eventually completes: time advances,
\* a due timer fires, and no getUserMedia call, due silence timeout, queued
\* recorder event, transcription request or response delay stays pending
\* forever (each leaves its queue only by being delivered or cancelled);
\* a recognition that was started eventually ends
Fairness ==
  /\ WF_vars(Tick)
  /\ WF_vars(IdleTimer)
  /\ []<>(acquiring = 0)
  /\ []<>(\A t \in TimerIds : pend[t] # 0)
  /\ []<>(stopQueue = {})
  /\ []<>(\A r \in RecIds : tasks[r].phase # "transcribe")
  /\ []<>(procTask = << >>)
  /\ WF_vars(WIdleTimer)
  /\ []<>(rec = "off")

FairSpec == Spec /\ Fairness

\* ---------------------------------------------------------------- claims
Allowed(a, b) ==
  \/ b = IDLE
  \/ << a, b >> \in {<< IDLE, LISTENING >>, << LISTENING, THINKING >>,
                     << THINKING, RESPONDING >>}

\* C1: every change of PopupController.currentState made by clicks, state
\* notifications, transcription callbacks, device acquisitions and timers is
\* IDLE->LISTENING, LISTENING->THINKING, THINKING->RESPONDING or (any)->IDLE.
C1_NoSkippedState ==
  ctl = "popup" =>
    \A i \in 1..(Len(stateLog) - 1) : Allowed(stateLog[i], stateLog[i + 1])

Recording == {r \in RecIds : recorders[r] = "recording"}

\* C2: for any interleaving of clicks and device-acquisition completions at
\* most one MediaRecorder is recording at a time.
C2_OneOpenRecording == ctl = "popup" => Cardinality(Recording) <= 1

\* C3: when processUserMessage completes for an unanswered user turn it
\* appends exactly one bot turn and the machine is RESPONDING; a further call
\* made when the last user turn already has a later bot turn appends nothing,
\* starts nothing and leaves the machine in IDLE.
C3_ProduceResponseOnce ==
  [][ /\ (Popup /\ lastOp' = "processDone") =>
           /\ Len(conversationHistory') = Len(conversationHistory) + 1
           /\ SubSeq(conversationHistory', 1, Len(conversationHistory))
                = conversationHistory
           /\ conversationHistory'[Len(conversationHistory')].sender = "bot"
           /\ currentState' = RESPONDING
      /\ ( /\ lastOp' = "callProcess"
           /\ ~isProcessing
           /\ LastUserIndex(conversationHistory) # 0
           /\ HasResponse(conversationHistory,
                          LastUserIndex(conversationHistory)) ) =>
           /\ conversationHistory' = conversationHistory
           /\ procTask' = procTask
           /\ idleTimers' = idleTimers
           /\ currentState' = IDLE ]_vars

\* a second call returned the machine from RESPONDING to IDLE
C3_Witness ==
  /\ lastOp = "callProcess"
  /\ stateLog = << RESPONDING, IDLE >>
  /\ conversationHistory # << >>
  /\ conversationHistory[Len(conversationHistory)].sender = "bot"
  /\ procTask = << >>

\* C4: in the history of PopupController every bot turn directly follows a
\* user turn: no user turn is followed by two bot turns.
C4_AtMostOneAnswer ==
  Popup =>
    \A i \in 1..Len(conversationHistory) :
      conversationHistory[i].sender = "bot" =>
        i > 1 /\ conversationHistory[i - 1].sender = "user"

\* two utterances were transcribed and both were answered
C4_Witness ==
  /\ Popup
  /\ Cardinality({i \in 1..Len(conversationHistory) :
                    conversationHistory[i].sender = "user"}) >= 2
  /\ Cardinality({i \in 1..Len(conversationHistory) :
                    conversationHistory[i].sender = "bot"}) >= 2

\* C5: a setState request for the active state runs no effect: the effects
\* logged by a step never repeat a state, and the widget starts
\* processUserMessage once per entry into THINKING.
C5_SameStateIsNoop ==
  /\ \A i \in 1..(Len(stateLog) - 1) : stateLog[i] # stateLog[i + 1]
  /\ ctl = "widget" =>
       procStarts = Cardinality({i \in 2..Len(stateLog) : stateLog[i] = THINKING})

\* onstart asked for LISTENING while the widget was already LISTENING
C5_Witness ==
  /\ ctl = "widget"
  /\ lastOp = "wRecStart"
  /\ stateLog = << LISTENING >>

Pending == {t \in TimerIds : pend[t] >= 0}

\* C6: a silence timer always has at least the rest of a full silenceDuration
\* since the last frame at or above the threshold to run, so an auto-stop
\* comes only after silenceDuration of sampled silence; when it fires it
\* stops the recording and leaves no timer behind (one auto-stop per run).
C6_AutoStopAfterFullSilence ==
  Popup =>
    /\ \A t \in Pending : pend[t] + sinceLoud >= silenceDuration
    /\ lastOp # "silenceTimeoutNoop"
    /\ lastOp = "silenceTimeout" =>
         /\ sinceLoud >= silenceDuration
         /\ ~isRecording
         /\ Pending = {}

\* the timer elapsed and stopped the recorder
C6_Witness ==
  /\ lastOp = "silenceTimeout"
  /\ sinceLoud >= silenceDuration
  /\ mediaRecorder \in stopQueue

\* C7: at most one silence timer is pending, it is the one silenceTimer
\* refers to, and it is pending only while isRecording is true.
C7_OneTimerWhileRecording ==
  Popup =>
    /\ Cardinality(Pending) <= 1
    /\ Pending = (IF silenceTimer = 0 THEN {} ELSE {silenceTimer})
    /\ Pending # {} => isRecording

\* stopListening cancelled a running silence timer
C7_Witness ==
  /\ lastOp = "stopCancelsTimer"
  /\ ~isRecording
  /\ Pending = {}

\* C8: every recording whose stop was handled has been finalized exactly
\* once (processAudio ran once for it).
C8_FinalizedExactlyOnce ==
  Popup => \A r \in stopHandled : procCount[r] = 1

\* C9: once a recording is stopped its checkVolume loop never samples the
\* analyser again.
C9_NoStaleSampling == ctl = "popup" => ~staleSampled

\* C10: a rejected device acquisition leaves the controller in IDLE, creates
\* no MediaRecorder, does not set isRecording, buffers no chunk and appends
\* no conversation turn.
C10_RejectedAcquisition ==
  [][ lastOp' = "acquireRejected" =>
        /\ currentState' = IDLE
        /\ recorders' = recorders
        /\ mediaRecorder' = mediaRecorder
        /\ isRecording' = isRecording
        /\ audioChunks' = audioChunks
        /\ conversationHistory' = conversationHistory
        /\ tasks' = tasks ]_vars

\* the only attempt was rejected: nothing was recorded
C10_Witness ==
  /\ lastOp = "acquireRejected"
  /\ currentState = IDLE
  /\ ~isRecording
  /\ mediaRecorder = 0
  /\ audioChunks = << >>
  /\ conversationHistory = << >>

\* events of one kind (and state) logged by the last step
EventsOf(kind) == {i \in 1..Len(events) : events[i].kind = kind}
ErrorCallbacks ==
  {i \in EventsOf("callback") : events[i].state = "error"}

\* C11: when the transcription call returns a non-2xx response or a status
\* other than "success", the controller is in IDLE after the step, no chat
\* message was appended (the transcription callback did not run), no
\* response is being produced, and the user got exactly one alert, for the
\* one 'error' state emitted.
C11_TranscriptionErrorToIdle ==
  (Popup /\ lastOp = "transcribeError") =>
    /\ currentState = IDLE
    /\ EventsOf("chat") = {}
    /\ procStarts = 0
    /\ Cardinality(ErrorCallbacks) = 1
    /\ alerts = 1

\* a failed transcription took the controller from THINKING back to IDLE
C11_Witness ==
  /\ lastOp = "transcribeError"
  /\ stateLog = << THINKING, IDLE >>
  /\ alerts = 1
  /\ conversationHistory = << >>

\* C12: when the chunks collected at the stop of a recorder make a payload
\* below MinBlobSize, no transcription request is sent, no recording is
\* started again, exactly one 'error' state is emitted and it carries the
\* too-short message, the user is alerted once, and the controller is in
\* IDLE with no chat message appended.
C12_TooShortIsReported ==
  (Popup /\ lastOp = "shortRecording") =>
    /\ EventsOf("request") = {}
    /\ \A i \in EventsOf("callback") : events[i].state # "recording"
    /\ Cardinality(ErrorCallbacks) = 1
    /\ \A i \in ErrorCallbacks : events[i].message = TooShort
    /\ alerts = 1
    /\ currentState = IDLE
    /\ EventsOf("chat") = {}

\* a recording of 600 bytes was finalized and reported
C12_Witness ==
  /\ lastOp = "shortRecording"
  /\ stateLog = << LISTENING, THINKING, IDLE >>
  /\ BlobSize(audioChunks) = 600
  /\ \A r \in RecIds : tasks[r] = NoTask

\* C13: a user turn is created only from a response that is 2xx, has status
\* "success" and carries a text: no user turn holds the undefined text of a
\* body without one (such a response makes transcribeAudio fail).
C13_TextOnlyFromWellFormedBody ==
  Popup =>
    \A i \in 1..Len(conversationHistory) :
      conversationHistory[i].sender = "user" =>
        conversationHistory[i].text # "undefined"

\* C14: after a step that emitted an 'error' state and left the controller
\* in IDLE the recording is hard-reset: isRecording is false, no silence
\* timer is pending, the buffered chunks are cleared and the stream of the
\* audio device is released.
C14_HardResetOnError ==
  (Popup /\ ErrorCallbacks # {} /\ currentState = IDLE) =>
    /\ ~isRecording
    /\ Pending = {}
    /\ audioChunks = << >>
    /\ ~stream

\* C15: once a recorder of PopupController has been stopped, and every
\* queued event, request and timer is eventually delivered, the controller
\* is eventually in IDLE, whatever the recorder delivered.
C15_StoppedLeadsToIdle ==
  (Popup /\ stopQueue # {}) ~> (currentState = IDLE)

\* C16: the delayed return scheduled on entering RESPONDING changes the
\* state only from RESPONDING to IDLE: when it fires in another state (a
\* newer session is LISTENING or THINKING) it has been cancelled and does
\* nothing.
C16_ReturnOnlyFromResponding ==
  (Popup /\ lastOp = "idleTimer" /\ Len(stateLog) > 1) =>
    stateLog[1] = RESPONDING

\* C17: whenever PopupController is in IDLE and no startRecording call is
\* waiting for the device, SpeechService.isRecording is false, so that the
\* next click is not refused with 'Recording already in progress'.
C17_CleanRetry ==
  (Popup /\ currentState = IDLE /\ acquiring = 0) => ~isRecording

\* C18: in the popup of the extension (chrome.runtime exists) every step
\* that changes PopupController.currentState sends at least one state-change
\* message to the other contexts.
C18_EveryTransitionIsSent ==
  (ctl = "popup" /\ Len(stateLog) > 1) => EventsOf("send") # {}

\* the states passed to updateState by the last step, in order
RECURSIVE CallbackStates(_)
CallbackStates(es) ==
  IF es = << >> THEN << >>
  ELSE IF Head(es).kind = "callback"
    THEN << Head(es).state >> \o CallbackStates(Tail(es))
  ELSE CallbackStates(Tail(es))

\* C19: every state-change message is sent right after the local callback
\* for the same state, so the messages leave in the order of the states
\* (and where chrome.runtime exists every callback is followed by its
\* message); a rejected acquisition emits [error] only; the states emitted
\* for one recorder are a prefix of [recording, error], [recording,
\* processing, error] or [recording, processing, completed]; and once the
\* stop of a recorder has been handled and no request of it is in flight
\* they are one of these three.
C19_OrderedStatesPerRecording ==
  Popup =>
    /\ \A i \in EventsOf("send") :
         /\ i > 1
         /\ events[i - 1].kind = "callback"
         /\ events[i - 1].state = events[i].state
    /\ ctl # "page" =>
         \A i \in EventsOf("callback") :
           /\ i < Len(events)
           /\ events[i + 1].kind = "send"
           /\ events[i + 1].state = events[i].state
    /\ lastOp = "acquireRejected" => CallbackStates(events) = << "error" >>
    /\ \A r \in RecIds :
         /\ emitLog[r] \in
              {<< >>, << "recording" >>, << "recording", "error" >>,
               << "recording", "processing" >>,
               << "recording", "processing", "error" >>,
               << "recording", "processing", "completed" >>}
         /\ (r \in stopHandled /\ tasks[r] = NoTask) =>
              emitLog[r] \in
                {<< "recording", "error" >>,
                 << "recording", "processing", "error" >>,
                 << "recording", "processing", "completed" >>}

\* what a step leaves behind apart from the fate of its messages
RECURSIVE WithoutSends(_)
WithoutSends(es) ==
  IF es = << >> THEN << >>
  ELSE IF Head(es).kind = "send" THEN WithoutSends(Tail(es))
  ELSE << Head(es) >> \o WithoutSends(Tail(es))

Outcome(w) == [w EXCEPT !.events = WithoutSends(w.events), !.chan = ""]

\* C20: in the contexts where a send can fail, whatever the message channel
\* does (the send is delivered, its promise rejects, or chrome.runtime does
\* not exist), no exception leaves updateState, the local callback has run,
\* and the state updateState leaves behind is the one it leaves when the
\* message is delivered.
C20_SendFailureIsAbsorbed ==
  ctl \in {"api", "page"} =>
    /\ EventsOf("throw") = {}
    /\ \A state \in {"recording", "processing", "completed", "error"} :
         \A c \in {"rejected", "noApi"} :
           LET w == UpdateState([World EXCEPT !.chan = c], state, "")
           IN /\ Outcome(w)
                   = Outcome(UpdateState([World EXCEPT !.chan = "delivered"],
                                         state, ""))
              /\ \E i \in 1..Len(w.events) :
                   /\ w.events[i].kind = "callback"
                   /\ w.events[i].state = state

\* in a page, without chrome.runtime, a recording was transcribed: its
\* states were emitted to the callback and no message was sent
C20_Witness ==
  /\ ctl = "page"
  /\ \E r \in RecIds : emitLog[r] = << "recording", "processing", "completed" >>
  /\ CallbackStates(events) = << "completed" >>
  /\ EventsOf("send") = {}
  /\ currentState = THINKING

\* the handling of message r has ended
BgDone(r) == bg[r].type = "PROCESS_USER_MESSAGE" /\ bg[r].phase = "done"

\* page inspection or the agent call failed for message r
BgFailed(r) ==
  \/ ~bg[r].hasTab
  \/ bg[r].injected = "no"
  \/ bg[r].page = "none"
  \/ bg[r].alertOk = "no"
  \/ bg[r].reply.status = "network"
  \/ bg[r].reply.status # "pending" /\ ~bg[r].reply.ok
  \/ bg[r].reply.status \notin {"pending", "success"}

\* C21: a PROCESS_USER_MESSAGE message never has two responses and has
\* exactly one when its handling has ended; when page inspection or the
\* agent call failed that response has status 'error' and carries a
\* message; a message of another type has no response.
C21_ExactlyOneResponse ==
  \A r \in ReqIds :
    /\ Len(bg[r].responses) <= 1
    /\ BgDone(r) => Len(bg[r].responses) = 1
    /\ (BgDone(r) /\ BgFailed(r)) =>
         /\ bg[r].responses[1].status = "error"
         /\ bg[r].responses[1].payload # ""
    /\ bg[r].type # "PROCESS_USER_MESSAGE" => bg[r].responses = << >>

\* one message failed at the page inspection, another at the agent call,
\* and each got its error response
C21_Witness ==
  /\ BgDone(1) /\ bg[1].page = "none"
  /\ BgDone(2) /\ bg[2].reply.status = "error"
  /\ bg[1].responses[1].status = "error"
  /\ bg[2].responses[1].status = "error"

\* C22: the response of a handled message has status 'success' exactly when
\* the annotation returned a result and the agent replied 2xx with status
\* "success"; then its payload is the result field of the reply, and the
\* request sent to the agent carried the transcription as message and the
\* stringified page context as context.
C22_SuccessIffAgentSucceeded ==
  \A r \in ReqIds :
    BgDone(r) =>
      /\ bg[r].responses[1].status = "success" <=>
           /\ bg[r].page # "" /\ bg[r].page # "none"
           /\ bg[r].reply.ok /\ bg[r].reply.status = "success"
      /\ bg[r].responses[1].status = "success" =>
           /\ bg[r].responses[1].payload = bg[r].reply.result
           /\ bg[r].sent = << [message |-> bg[r].text,
                               context |-> "json " \o bg[r].page] >>
      /\ Len(bg[r].sent) <= 1

\* a message was answered with the result of the agent, another one was
\* refused by the agent
C22_Witness ==
  /\ BgDone(1) /\ bg[1].responses[1] = [status |-> "success", payload |-> "click id-1"]
  /\ BgDone(2) /\ bg[2].reply.ok /\ bg[2].reply.status = "error"

\* C23: a click of the popup requests the device at most once and not at
\* all when the SpeechService already holds a stream; a visualizer started
\* with the analyser of the SpeechService does not call getUserMedia; and
\* no call of the visualizer, stop() and cleanup() with the shared analyser
\* included, stops the tracks of the shared stream or closes the audio
\* context of its owner.
C23_SharedDeviceNotReacquired ==
  /\ Popup =>
       /\ Cardinality(EventsOf("getUserMedia")) <= 1
       /\ EventsOf("getUserMedia") # {} => ~stream
       /\ isVisualizing => analyser # 0
  /\ Visualizer =>
       /\ viz.call = "startShared" => ~viz.requested
       /\ viz.call \in {"stopShared", "cleanupShared"} =>
            ~viz.requested
       /\ viz.sharedTracks = "live"
       /\ viz.ownerContext = "running"

\* cleanup() was called on a visualizer that was drawing from the shared
\* analyser
C23_Witness ==
  /\ Visualizer
  /\ viz.call = "cleanupShared"
  /\ viz.analyser = "null" /\ ~viz.usingExternalAnalyser /\ ~viz.initialized
  /\ viz.sharedTracks = "live" /\ viz.ownerContext = "running"

\* C24: in every state, a second call of WaveformVisualizer.stop(), of
\* WaveformVisualizer.cleanup() or of SpeechService.stopRecording() right
\* after the first leaves the state the first call left.
C24_ReleaseIsIdempotent ==
  /\ Visualizer =>
       /\ VzStop(VzStop(viz)) = VzStop(viz)
       /\ VzCleanup(VzCleanup(viz)) = VzCleanup(viz)
  /\ Popup => StopRecording(StopRecording(World)) = StopRecording(World)

\* the entries the addChatMessage calls of the last step were given
RECURSIVE ChatEntries(_)
ChatEntries(es) ==
  IF es = << >> THEN << >>
  ELSE IF Head(es).kind = "chat"
    THEN << [text |-> Head(es).message, sender |-> Head(es).state] >>
           \o ChatEntries(Tail(es))
  ELSE ChatEntries(Tail(es))

\* C25: every step leaves the entries of conversationHistory in place and
\* appends to them, in call order, one entry for each addChatMessage call
\* it makes: the history never shrinks, its entries never change, and no
\* append is lost.
C25_HistoryIsAppendOnly ==
  [][conversationHistory' = conversationHistory \o ChatEntries(events')]_vars

\* the most recent user turn without a later bot turn, found by scanning
\* from the end; 0 when there is none
RECURSIVE LastUnansweredUserTurn(_, _)
LastUnansweredUserTurn(h, i) ==
  IF i = 0 THEN 0
  ELSE IF h[i].sender = "bot" THEN 0
  ELSE IF h[i].sender = "user" THEN i
  ELSE LastUnansweredUserTurn(h, i - 1)

\* C26: a processUserMessage call made while no other call is in flight
\* appends nothing itself; it starts to produce a response, for the text of
\* the most recent user entry, exactly when that entry exists and no bot
\* entry follows it, and the response appended later is the one for that
\* text; in the other cases nothing is started and nothing is appended.
C26_AnswersLastUnansweredTurn ==
  LET h == conversationHistory
      t == LastUnansweredUserTurn(h, Len(h))
  IN /\ lastOp = "callProcess" =>
          /\ EventsOf("chat") = {}
          /\ IF t = 0
               THEN procStarts = 0 /\ procTask = << >> /\ ~isProcessing
               ELSE /\ procStarts = 1
                    /\ procTask # << >>
                    /\ procTask[Len(procTask)] = h[t].text
     /\ (ctl = "log" /\ lastOp = "processDone") =>
          /\ Len(h) >= 2
          /\ h[Len(h)].sender = "bot"
          /\ LET g == SubSeq(h, 1, Len(h) - 1)
                 u == LastUnansweredUserTurn(g, Len(g))
             IN u # 0 /\ h[Len(h)].text = "I understand you said: " \o g[u].text

\* a history with two user turns after an answered one got the answer to
\* the later of the two
C26_Witness ==
  /\ ctl = "log"
  /\ lastOp = "processDone"
  /\ Len(conversationHistory) = 4
  /\ conversationHistory[1].sender = "bot"
  /\ conversationHistory[2] = [text |-> "hello", sender |-> "user"]
  /\ conversationHistory[3] = [text |-> "help", sender |-> "user"]
  /\ conversationHistory[4].text = "I understand you said: help"

\* C28: in every state in which a processUserMessage call is in flight,
\* another call returns the state it was given: no turn appended, the same
\* currentState, no timer scheduled, nothing started, and the guard of the
\* call in flight still set.
C28_BusyCallChangesNothing ==
  isProcessing =>
    /\ ProcessUserMessage(World) = World
    /\ ProcessUserMessage(World).isProcessing

\* processUserMessage was called directly while a response was being
\* produced, and the call in flight is still there
C28_Witness ==
  /\ lastOp = "callProcessBusy"
  /\ isProcessing
  /\ Len(procTask) = 1
  /\ stateLog = << currentState >>
  /\ events = << >>

\* C27: after a run of createAnnotatedHtml no two elements of the document
\* carry the same data-id, the entries of the payload are numbered id-1 to
\* id-n in document order, and findAndHighlight with the id of an entry of
\* the latest payload returns the element that entry was generated for.
C27_IdsAreUnique ==
  /\ dom.call = "annotate" =>
       /\ \A e, f \in ElemIds :
            (/\ e # f
             /\ dom.elems[e].present /\ dom.elems[f].present
             /\ dom.elems[e].dataId # "") =>
              dom.elems[e].dataId # dom.elems[f].dataId
       /\ \A k \in 1..Len(dom.payload) :
            /\ dom.payload[k].id = "id-" \o ToString(k)
            /\ k > 1 => dom.payload[k - 1].elem < dom.payload[k].elem
  /\ \A k \in 1..Len(dom.payload) :
       dom.call = dom.payload[k].id => dom.found = dom.payload[k].elem

\* C29: a step in which a start attempt fails shows one alert: one when the
\* request for the device is rejected, one when the start is refused
\* because a recording is open, and never more than one in a step.
C29_OneAlertPerFailedStart ==
  Popup =>
    /\ lastOp \in {"acquireRejected", "clickRefused"} => alerts = 1
    /\ alerts <= 1

\* C30: in LISTENING, THINKING and RESPONDING a click on the voice button
\* of the popup or of the widget returns the state it was given: the same
\* currentState, recording, history and pending timers; the step of such a
\* click makes no transition, no notification, no alert and starts nothing.
C30_ClickOnlyActsInIdle ==
  (Popup \/ Widget) =>
    /\ currentState # IDLE => ClickOutsideIdle(World) = World
    /\ lastOp = "clickIgnored" =>
         /\ currentState # IDLE
         /\ stateLog = << currentState >>
         /\ events = << >>
         /\ alerts = 0
         /\ procStarts = 0

\* a click while the popup was listening, with the silence timer pending:
\* the recording goes on and the timer is still pending
C30_Witness ==
  /\ Popup
  /\ lastOp = "clickIgnored"
  /\ currentState = LISTENING
  /\ isRecording
  /\ silenceTimer # 0
  /\ isVisualizing

\* C31: in the history of WidgetController every bot turn directly follows
\* the user turn it answers and is the response to the text of that turn,
\* and the response step is never started on an empty history ("" is the
\* undefined last entry).
C31_WidgetAnswersUserTurns ==
  Widget =>
    /\ \A i \in 1..Len(conversationHistory) :
         conversationHistory[i].sender = "bot" =>
           /\ i > 1
           /\ conversationHistory[i - 1].sender = "user"
           /\ conversationHistory[i].text =
                "I understand you said: " \o conversationHistory[i - 1].text
    /\ \A k \in 1..Len(procTask) : procTask[k] # ""

\* C32: when every timer, response delay and recognition event is
\* eventually delivered, a WidgetController that is in LISTENING or THINKING
\* is eventually in IDLE.
C32_WidgetReturnsToIdle ==
  (Widget /\ currentState \in {LISTENING, THINKING}) ~> (currentState = IDLE)

\* C33: every state change of WidgetController is IDLE->LISTENING,
\* LISTENING->THINKING, THINKING->RESPONDING or (any)->IDLE; the completion
\* of a response finds the controller in THINKING, and the delayed return
\* changes the state only from RESPONDING.
C33_WidgetNoStaleCompletion ==
  Widget =>
    /\ \A i \in 1..(Len(stateLog) - 1) : Allowed(stateLog[i], stateLog[i + 1])
    /\ lastOp = "wProcessDone" => stateLog[1] = THINKING
    /\ (lastOp = "wIdleTimer" /\ Len(stateLog) > 1) => stateLog[1] = RESPONDING

\* the audios of the TTSService that are playing
Playing == {a \in SpeakIds : tts.audios[a] = "playing"}

\* C34: at most one audio of the TTSService is playing, and right after a
\* speak() or stop() call none is.
C34_OneAudioAtATime ==
  Tts =>
    /\ Cardinality(Playing) <= 1
    /\ tts.call \in {"speak", "stop"} => Playing = {}

\* C35: isPlaying is true exactly when some audio made by speak() is
\* playing, and exactly when currentAudio refers to a playing audio.
C35_FlagMatchesAudio ==
  Tts =>
    /\ tts.isPlaying <=> Playing # {}
    /\ tts.isPlaying <=>
         (tts.currentAudio # 0 /\ tts.audios[tts.currentAudio] = "playing")

\* C36: a script element is on the page only when the script before it has
\* finished loading (so none follows a script that failed), and the scripts
\* were injected in the order speech-service.js, waveform.js, popup.js,
\* each once.
C36_ScriptsLoadInOrder ==
  Inject =>
    /\ \A k \in ScriptIds :
         (k > 1 /\ inj.scripts[k] # "absent") => inj.scripts[k - 1] = "loaded"
    /\ \A n \in 1..Len(inj.order) : inj.order[n] = n

\* C37: the page holds at most one widget container and at most one
\* PopupController, and the SpeechService holds the handlers of at most one
\* controller.
C37_SingleInstancePerPage ==
  Inject =>
    /\ inj.containers <= 1
    /\ inj.controllers <= 1
    /\ Cardinality(inj.onTranscription) <= 1
    /\ Cardinality(inj.onStateChange) <= 1

====
